---- MODULE Spec2Model ----
(***************************************************************************)
(* The "disallow var" lint rule of lib/rules/my-rule.js, driven by an      *)
(* engine that creates the rule for a reporting context and then calls     *)
(* the registered handlers on the nodes of a syntax tree.                  *)
(***************************************************************************)
EXTENDS Naturals, Sequences, FiniteSets, TLC

\* Longest run of node visits explored.
MaxVisits == 3

\* The reporting contexts the engine hands to create().
Contexts == {"A", "B"}

\* The nodes of the syntax tree under traversal.
NodeIds == {"n1", "n2", "n3"}

\* JavaScript values a node's kind attribute may hold.
Str(s) == [tag |-> "string", val |-> s]
Undefined == [tag |-> "undefined", val |-> ""]
Arr(s) == [tag |-> "array", val |-> s]

Kinds == {Str("var"), Str("let"), Str("const"), Str("VAR"), Undefined, Arr("var")}

NodeTypes == {"VariableDeclaration", "ExpressionStatement"}

\* A declaration carries any of the kinds; a node of another type has no kind
\* attribute, or (to tell dispatch by type from the kind test) the kind "var".
NodeShapes ==
  [type : {"VariableDeclaration"}, kind : Kinds]
    \cup [type : NodeTypes \ {"VariableDeclaration"}, kind : {Undefined, Str("var")}]

\* The message with its final period dropped.
MessageNoPeriod == "Unexpected var, use let or const instead"

\* The message of my-rule.js line 15.
Message == "Unexpected var, use let or const instead."

\* plugin.meta
Meta ==
  [type |-> "problem",
   docs |-> [description |-> "disallow the use of 'var'",
             category |-> "Best Practices",
             recommended |-> TRUE],
   schema |-> <<>>]

VARIABLES
  nodes,      \* node id -> [type, kind]: the syntax tree's nodes
  meta,       \* the rule's metadata
  created,    \* contexts for which the engine has called create()
  listeners,  \* context slot -> the mapping create() returned for it
  reports,    \* context -> diagnostics that context.report received, in order
  visited,    \* context slot -> log of the visits dispatched through it
  threw       \* a handler raised an error (the traversal is aborted)

vars == <<nodes, meta, created, listeners, reports, visited, threw>>

\* a == b of JavaScript: an array is first converted to its string form
LooseEquals(a, b) ==
  /\ a.tag # "undefined"
  /\ b.tag # "undefined"
  /\ a.val = b.val

\* a === b of JavaScript, on the values above (an array is equal only to itself)
StrictEquals(a, b) ==
  /\ a.tag = b.tag
  /\ a.tag # "array"
  /\ a.val = b.val

\* context.report(node, message)
report(rep, context, node, message) ==
  [rep EXCEPT ![context] = Append(@, [node |-> node, message |-> message])]

NoChange == [nodes |-> nodes, reports |-> reports, threw |-> FALSE]

\* The handler testing kind !== "const".
VariableDeclarationNotConst(context, n) ==
  IF ~StrictEquals(nodes[n].kind, Str("const"))
  THEN [NoChange EXCEPT !.reports = report(reports, context, n, Message)]
  ELSE NoChange

\* The handler reporting only the first "var" a context sees.
VariableDeclarationFirstOnly(context, n) ==
  IF StrictEquals(nodes[n].kind, Str("var")) /\ reports[context] = <<>>
  THEN [NoChange EXCEPT !.reports = report(reports, context, n, Message)]
  ELSE NoChange

\* The handler reporting a "var" twice.
VariableDeclarationTwice(context, n) ==
  IF StrictEquals(nodes[n].kind, Str("var"))
  THEN [NoChange EXCEPT !.reports =
          report(report(reports, context, n, Message), context, n, Message)]
  ELSE NoChange

\* The handler skipping a node it has already reported.
VariableDeclarationDedupe(context, n) ==
  IF /\ StrictEquals(nodes[n].kind, Str("var"))
     /\ \A i \in 1..Len(reports[context]) : reports[context][i].node # n
  THEN [NoChange EXCEPT !.reports = report(reports, context, n, Message)]
  ELSE NoChange

\* The handler reporting another node of the tree than the one it was given.
VariableDeclarationOtherNode(context, n) ==
  IF StrictEquals(nodes[n].kind, Str("var"))
  THEN [NoChange EXCEPT !.reports =
          report(reports, context, CHOOSE m \in NodeIds : m # n, Message)]
  ELSE NoChange

\* The handler with "node.kind = 'var'" (an assignment) as its condition.
VariableDeclarationAssign(context, n) ==
  [nodes |-> [nodes EXCEPT ![n].kind = Str("var")],
   reports |-> report(reports, context, n, Message),
   threw |-> FALSE]

\* The handler create(context) registers, called with node n.
VariableDeclaration(context, n) ==
  IF StrictEquals(nodes[n].kind, Str("var"))
  THEN [nodes |-> nodes, reports |-> report(reports, context, n, Message), threw |-> FALSE]
  ELSE [nodes |-> nodes, reports |-> reports, threw |-> FALSE]

\* create registering its handler for every node type.
createAllTypes(context) ==
  {[key |-> t, context |-> context] : t \in NodeTypes}

\* create whose handler reports to one context shared by all calls.
createShared(context) ==
  {[key |-> "VariableDeclaration", context |-> CHOOSE c \in Contexts : TRUE]}

\* create(context): the mapping node type -> handler, the handler closing over context
create(context) ==
  {[key |-> "VariableDeclaration", context |-> context]}

Init ==
  /\ nodes \in [NodeIds -> NodeShapes]
  /\ meta = Meta
  /\ created = {}
  /\ listeners = [c \in Contexts |-> {}]
  /\ reports = [c \in Contexts |-> <<>>]
  /\ visited = [c \in Contexts |-> <<>>]
  /\ threw = FALSE

\* The engine instantiates the rule for context c.
Create(c) ==
  /\ ~threw
  /\ listeners' = [listeners EXCEPT ![c] = create(c)]
  /\ created' = created \cup {c}
  /\ UNCHANGED <<nodes, meta, reports, visited, threw>>

\* What one visit added to each context's diagnostics.
Emitted(old, new) ==
  [d \in Contexts |-> SubSeq(new[d], Len(old[d]) + 1, Len(new[d]))]

TotalVisits == Len(visited["A"]) + Len(visited["B"])

\* The engine reaches node n during the traversal of slot c and calls the
\* handler registered for the node's type, if there is one.
Visit(c, n) ==
  /\ ~threw
  /\ c \in created
  /\ TotalVisits < MaxVisits
  /\ LET hs == {h \in listeners[c] : h.key = nodes[n].type}
         res == IF hs = {}
                THEN NoChange
                ELSE VariableDeclaration((CHOOSE h \in hs : TRUE).context, n)
     IN /\ nodes' = res.nodes
        /\ reports' = res.reports
        /\ threw' = res.threw
        /\ visited' = [visited EXCEPT ![c] =
                         Append(@, [node |-> n, emitted |-> Emitted(reports, res.reports)])]
  /\ UNCHANGED <<meta, created, listeners>>

Next ==
  \/ \E c \in Contexts : Create(c)
  \/ \E c \in Contexts, n \in NodeIds : Visit(c, n)

Spec == Init /\ [][Next]_vars

----
\* Vocabulary of the properties.

IsDecl(n) == nodes[n].type = "VariableDeclaration"

IsVarDecl(n) == IsDecl(n) /\ nodes[n].kind = Str("var")

\* Every visit of the logs, with the slot it went through.
Logged ==
  UNION {{[slot |-> c, at |-> i] : i \in 1..Len(visited[c])} : c \in Contexts}

NodeOf(v) == visited[v.slot][v.at].node

EmittedTo(v, d) == visited[v.slot][v.at].emitted[d]

\* Number of diagnostics a visit emitted, over all contexts.
EmittedCount(v) == Len(EmittedTo(v, "A")) + Len(EmittedTo(v, "B"))

\* All diagnostics a visit emitted.
EmittedAll(v) == EmittedTo(v, "A") \o EmittedTo(v, "B")

RECURSIVE Expected(_)
\* The diagnostics a run of visits should give: one per "var" declaration, in order.
Expected(log) ==
  IF log = <<>> THEN <<>>
  ELSE (IF IsVarDecl(Head(log).node)
        THEN <<[node |-> Head(log).node,
                message |-> "Unexpected var, use let or const instead."]>>
        ELSE <<>>) \o Expected(Tail(log))

ReportsAbout(n) ==
  Cardinality(UNION {{<<c, i>> : i \in {j \in 1..Len(reports[c]) : reports[c][j].node = n}} :
                       c \in Contexts})

VisitsOf(n) == Cardinality({v \in Logged : NodeOf(v) = n})

----
\* C1: a visit of a declaration whose kind is "var" emits exactly one
\* diagnostic, and its message is "Unexpected var, use let or const instead.".
C1_VarReportedOnce ==
  \A v \in Logged :
    IsVarDecl(NodeOf(v)) =>
      /\ EmittedCount(v) = 1
      /\ EmittedAll(v)[1].message = "Unexpected var, use let or const instead."

C1_Witness ==
  \E v \in Logged : IsVarDecl(NodeOf(v)) /\ Len(reports[v.slot]) = 1

\* C2: a visit of a declaration whose kind is "let" or "const" emits no diagnostic.
C2_LetConstSilent ==
  \A v \in Logged :
    (IsDecl(NodeOf(v)) /\ nodes[NodeOf(v)].kind \in {Str("let"), Str("const")}) =>
      EmittedAll(v) = <<>>

C2_Witness ==
  /\ \E v \in Logged : IsDecl(NodeOf(v)) /\ nodes[NodeOf(v)].kind = Str("let")
  /\ \E v \in Logged : IsDecl(NodeOf(v)) /\ nodes[NodeOf(v)].kind = Str("const")
  /\ \A c \in Contexts : reports[c] = <<>>

\* C3: after any run of visits through a context, its diagnostics are one per
\* visited "var" declaration, in visit order, each with the fixed message.
C3_OnePerVarInOrder ==
  \A c \in Contexts : reports[c] = Expected(visited[c])

C3_Witness ==
  \E c \in Contexts :
    /\ Len(visited[c]) >= 2
    /\ visited[c][1].node # visited[c][2].node
    /\ IsVarDecl(visited[c][1].node)
    /\ IsVarDecl(visited[c][2].node)
    /\ Len(reports[c]) = 2

\* C4: no visit emits more than one diagnostic, so a node never has more
\* diagnostics than it has had visits.
C4_AtMostOnePerVisit ==
  /\ \A v \in Logged : EmittedCount(v) <= 1
  /\ \A n \in NodeIds : ReportsAbout(n) <= VisitsOf(n)

C4_Witness ==
  \E n \in NodeIds : VisitsOf(n) = 2 /\ ReportsAbout(n) = 2

\* C5: two visits of the same node give the same diagnostics whatever happened
\* before or between them, and two visits of nodes of the same type and kind
\* give the same number of diagnostics.
C5_SameNodeSameOutcome ==
  \A v, w \in Logged :
    /\ (NodeOf(v) = NodeOf(w) /\ v.slot = w.slot) =>
         visited[v.slot][v.at].emitted = visited[w.slot][w.at].emitted
    /\ nodes[NodeOf(v)] = nodes[NodeOf(w)] => EmittedCount(v) = EmittedCount(w)

C5_Witness ==
  \E c \in Contexts :
    /\ Len(visited[c]) = 3
    /\ visited[c][1].node = visited[c][3].node
    /\ visited[c][2].node # visited[c][1].node
    /\ IsVarDecl(visited[c][1].node)
    /\ IsVarDecl(visited[c][2].node)
    /\ Len(visited[c][3].emitted[c]) = 1

\* C6: the mapping create returns holds exactly one handler, under the key
\* "VariableDeclaration", and a visit of a node of another type emits nothing.
C6_OnlyDeclarationHandler ==
  /\ \A c \in created :
       /\ Cardinality(listeners[c]) = 1
       /\ \A h \in listeners[c] : h.key = "VariableDeclaration"
  /\ \A v \in Logged : ~IsDecl(NodeOf(v)) => EmittedAll(v) = <<>>

C6_Witness ==
  \E v \in Logged :
    /\ ~IsDecl(NodeOf(v))
    /\ nodes[NodeOf(v)].kind = Str("var")
    /\ reports[v.slot] = <<>>

\* C7: every diagnostic a visit emits refers to the node that was visited.
C7_ReportsVisitedNode ==
  \A v \in Logged :
    \A i \in 1..EmittedCount(v) : EmittedAll(v)[i].node = NodeOf(v)

C7_Witness ==
  \E c \in Contexts :
    /\ Len(reports[c]) = 2
    /\ reports[c][1].node # reports[c][2].node
    /\ \E n \in NodeIds : IsVarDecl(n) /\ VisitsOf(n) = 0

\* C8: a visit changes nothing but the diagnostics: the nodes, the registered
\* mappings and the metadata stay as they were, and when the visited node's
\* kind is not "var" the diagnostics stay as they were too.
C8_VisitFrame ==
  [][\A c \in Contexts :
       Len(visited'[c]) > Len(visited[c]) =>
         /\ nodes' = nodes
         /\ listeners' = listeners
         /\ meta' = meta
         /\ (nodes[visited'[c][Len(visited'[c])].node].kind # Str("var")
               => reports' = reports)]_vars

C8_Witness ==
  \E v, w \in Logged :
    /\ IsDecl(NodeOf(v)) /\ nodes[NodeOf(v)].kind = Str("let")
    /\ IsVarDecl(NodeOf(w))
    /\ meta = Meta

\* C9: a handler reports only to the context its own create call received:
\* a visit through one context's handler adds nothing to another context, and
\* a context holds as many diagnostics as "var" declarations were visited
\* through it, all of them about nodes visited through it.
C9_ContextsIsolated ==
  /\ \A v \in Logged : \A d \in Contexts \ {v.slot} : EmittedTo(v, d) = <<>>
  /\ \A c \in Contexts :
       /\ Len(reports[c]) =
            Cardinality({v \in Logged : v.slot = c /\ IsVarDecl(NodeOf(v))})
       /\ \A i \in 1..Len(reports[c]) :
            \E v \in Logged : v.slot = c /\ NodeOf(v) = reports[c][i].node

C9_Witness ==
  /\ Len(reports["A"]) = 1
  /\ Len(reports["B"]) = 2
  /\ Len(visited["A"]) = 1
  /\ Len(visited["B"]) = 2

\* C10: the handler reports exactly when the kind is the string "var"; for any
\* other kind (another string, "VAR", an absent kind, a non-string) it emits
\* nothing, and no visit raises an error.
C10_ReportsIffStrictVar ==
  /\ ~threw
  /\ \A v \in Logged :
       IsDecl(NodeOf(v)) =>
         (EmittedAll(v) # <<>> <=> nodes[NodeOf(v)].kind = Str("var"))

C10_Witness ==
  /\ ~threw
  /\ \A k \in {Str("VAR"), Undefined, Arr("var")} :
       \E v \in Logged :
         /\ IsDecl(NodeOf(v))
         /\ nodes[NodeOf(v)].kind = k
         /\ EmittedAll(v) = <<>>

====
